---- MODULE Spec2Model ----
(***************************************************************************)
(* The checkout fan-out of handson-opentelemetry: the back-end handler     *)
(* (back-end/main.go), its payment call, its shipping and invoicing        *)
(* goroutines joined over two unbuffered channels, and the chain of HTTP   *)
(* calls the payment-gateway and shipping-gateway make on its behalf.      *)
(***************************************************************************)
EXTENDS Integers, Sequences, FiniteSets, TLC

\* Number of checkout requests the back-end handles concurrently.
NReq == 2
\* Number of distinct trace ids an inbound request may carry.
MaxTrace == 2
\* Largest number of items in the basket of an order.
MaxBasket == 2

Req == 1..NReq
TraceIds == 1..MaxTrace
Legs == {"pay", "ship"}

StatusOK == 200
StatusBadRequest == 400

\* The amount payment() writes in its payload: the literal of line 163,
\* where the call of calcAmount is commented out.
PaymentAmount == 12

(***************************************************************************)
(* Hosts.  The services of docker-compose.yml answer on their names; any   *)
(* other name does not resolve, and the empty name is refused by the       *)
(* client before anything is sent.                                         *)
(***************************************************************************)
Gateways == {"payment-gateway", "shipping-gateway"}
Vendors == {"paypal", "credit", "fedex", "dhl", "toll"}
Services == {"back-end"} \cup Gateways \cup Vendors

\* A key that is no host name: url.Parse refuses "http://pay pal/".
BadHost == "pay pal"
\* A key holding a JSON escape: the six characters \u0061 and not an "a".
EscKey == "p\\u0061ypal"

\* The routing keys an order is drawn with: a vendor, each service of the
\* system itself, a name that does not resolve, the empty name, a key that
\* is no host name, and a key holding an escape.
Keys == {"paypal", "fedex", "payment-gateway", "shipping-gateway",
         "back-end", "nowhere", "", BadHost, EscKey}

\* http.NewRequest("POST", "http://" + h + "/", ...) returns a request.
ValidHost(h) == h # BadHost /\ h # EscKey

(***************************************************************************)
(* Text.  The payloads are built with Sprintf("...\"%s\"...") and read     *)
(* back with encoding/json, so what matters of a string is what embedding  *)
(* it between two quotes does: "plain" text survives; text holding a bare  *)
(* quote ("quote") breaks the JSON; text holding an escaped quote ("esc")  *)
(* gives valid JSON that decodes to text holding a bare quote.             *)
(***************************************************************************)
Texts == {"plain", "quote", "esc"}

EmbedValid(t) == t # "quote"
EmbedDecoded(t) == IF t = "esc" THEN "quote" ELSE t

\* A routing key goes through the same embedding: the receiver decodes the
\* escape a key holds, and every other key of the model as it is.
KeyDecoded(k) == IF k = EscKey THEN "paypal" ELSE k

\* The basket is written as ["%s"] around strings.Join(basket, "\",\""):
\* an empty basket becomes [""], which decodes to one (empty) item.
JoinedCount(n) == IF n = 0 THEN 1 ELSE n

\* What a receiver decodes from a payload: absent fields are zero values.
\* basket is the number of items.
ZeroPayload == [json |-> TRUE, name |-> "plain", address |-> "plain",
                method |-> "", vendor |-> "", amount |-> 0, basket |-> 0]

\* back-end payment payload {name, amount, method}
PaymentPayload(o) ==
    [ZeroPayload EXCEPT !.json = EmbedValid(o.name),
                        !.name = EmbedDecoded(o.name),
                        !.amount = PaymentAmount,
                        !.method = KeyDecoded(o.payment)]

\* back-end shipping payload {address, vendor, basket}
ShippingPayload(o) ==
    [ZeroPayload EXCEPT !.json = EmbedValid(o.address),
                        !.address = EmbedDecoded(o.address),
                        !.vendor = KeyDecoded(o.shipping),
                        !.basket = JoinedCount(o.basket)]

\* payment-gateway forwards {name, amount}; shipping-gateway {address, basket}
ForwardPayload(gw, p) ==
    IF gw = "payment-gateway"
    THEN [ZeroPayload EXCEPT !.json = EmbedValid(p.name),
                             !.name = EmbedDecoded(p.name),
                             !.amount = p.amount]
    ELSE [ZeroPayload EXCEPT !.json = EmbedValid(p.address),
                             !.address = EmbedDecoded(p.address),
                             !.basket = JoinedCount(p.basket)]

\* RouteKey with the vendor fixed in the gateway.
RouteKeyFixed(gw, p) == IF gw = "payment-gateway" THEN "paypal" ELSE "fedex"

\* The host a gateway forwards to: payment.Method, shipping.Vendor.
RouteKey(gw, p) == IF gw = "payment-gateway" THEN p.method ELSE p.vendor

\* basket is the number of items of Order.Basket.
ZeroOrder == [name |-> "plain", address |-> "plain", payment |-> "", shipping |-> "",
              basket |-> 0]

\* The order of scenario A and the everyday order.
ScenarioA == [name |-> "plain", address |-> "plain",
              payment |-> "payment-gateway", shipping |-> "shipping-gateway",
              basket |-> 2]
PlainOrder == [name |-> "plain", address |-> "plain",
               payment |-> "paypal", shipping |-> "fedex", basket |-> 2]

\* The orders of the model: every text with every payment key, every text
\* with every shipping key, every pair of texts, every size of basket, and
\* scenario A.
Orders ==
    {[PlainOrder EXCEPT !.name = t, !.payment = k] : t \in Texts, k \in Keys}
      \cup {[PlainOrder EXCEPT !.address = t, !.shipping = k] : t \in Texts, k \in Keys}
      \cup {[PlainOrder EXCEPT !.name = t, !.address = u] : t \in Texts, u \in Texts}
      \cup {[PlainOrder EXCEPT !.basket = n] : n \in 0..MaxBasket}
      \cup {ScenarioA}

Malformed == [json |-> FALSE, order |-> ZeroOrder]
Body(o) == [json |-> TRUE, order |-> o]

\* The request bodies of the one-request specification, and the smaller
\* set used where several requests run together.
Bodies == {Malformed} \cup {Body(o) : o \in Orders}
FewBodies == {Malformed, Body(PlainOrder), Body([PlainOrder EXCEPT !.address = "quote"])}
LiveBodies == FewBodies \cup {Body([PlainOrder EXCEPT !.payment = "nowhere"]),
                            Body([PlainOrder EXCEPT !.shipping = BadHost]),
                            Body([PlainOrder EXCEPT !.payment = "back-end"]),
                            Body(ScenarioA)}

VARIABLES
    hpc,        \* position of the checkout handler of each request
    body,       \* the body of the inbound request
    order,      \* the decoded Order
    traceId,    \* trace id of the span in the inbound request's context
    cancelled,  \* the inbound request's context is done
    status,     \* status written to the caller, 0 while none
    respTrace,  \* trace id written in the response body, 0 while none
    spc,        \* position of the shipping goroutine
    ipc,        \* position of the invoicing goroutine
    sval,       \* the value the shipping goroutine sends on its channel
    got,        \* values the handler received from ch1 and ch2
    tally,      \* goroutines started, and sends and receives per channel
    events,     \* events added to the span of the inbound request
    invEvents,  \* events added to the generating-invoice span
    attempts,   \* client.Do calls the back-end made, per leg
    posts,      \* POSTs issued on behalf of the request, per target host
    calls,      \* per leg, the chain of HTTP calls: the back-end's, then
                \* the one each called handler makes in turn
    measures,   \* measurements the OTLP variant's handler has recorded
    calc        \* one call of the pricing helper calcAmount

vars == <<hpc, body, order, traceId, cancelled, status, respTrace, spc, ipc, sval,
          got, tally, events, invEvents, attempts, posts, calls, measures, calc>>

hvars == <<hpc, body, order, traceId, status, respTrace, measures, calc>>
gvars == <<spc, ipc, sval, got, tally, invEvents>>

AllHosts == Services \cup Keys

\* No measurement recorded; calcAmount not called.
NoMeasures == [latency |-> 0, count |-> 0]
CalcIdle == [pc |-> "idle", n |-> 0, factor |-> 0, total |-> 0, events |-> <<>>]

\* No request has arrived.
NoCheckout ==
    /\ hpc = [r \in Req |-> "idle"]
    /\ body = [r \in Req |-> Malformed]
    /\ order = [r \in Req |-> ZeroOrder]
    /\ traceId = [r \in Req |-> 0]
    /\ cancelled = [r \in Req |-> FALSE]
    /\ status = [r \in Req |-> 0]
    /\ respTrace = [r \in Req |-> 0]
    /\ spc = [r \in Req |-> "none"]
    /\ ipc = [r \in Req |-> "none"]
    /\ sval = [r \in Req |-> FALSE]
    /\ got = [r \in Req |-> [ch1 |-> "none", ch2 |-> "none"]]
    /\ tally = [r \in Req |-> [spawned |-> 0, sent1 |-> 0, recv1 |-> 0,
                                sent2 |-> 0, recv2 |-> 0]]
    /\ events = [r \in Req |-> <<>>]
    /\ invEvents = [r \in Req |-> <<>>]
    /\ attempts = [r \in Req |-> [l \in Legs |-> 0]]
    /\ posts = [r \in Req |-> [h \in AllHosts |-> 0]]
    /\ calls = [r \in Req |-> [l \in Legs |-> <<>>]]
    /\ measures = [r \in Req |-> NoMeasures]

Init == NoCheckout /\ calc = CalcIdle

(***************************************************************************)
(* One HTTP call.  st: "inflight", "failed" (client.Do returned an error), *)
(* "closed" (the caller took the outcome).  srv is the called handler:     *)
(* "no" (nothing arrived), "handling", "finished" (response written),      *)
(* "panicked" (the handler panicked and no response was written).          *)
(***************************************************************************)
NewCall(to, trace, payload, dead) ==
    [to |-> to, trace |-> trace, payload |-> payload,
     st |-> IF dead \/ to = "" THEN "failed" ELSE "inflight",
     why |-> IF dead THEN "ctx" ELSE IF to = "" THEN "nohost" ELSE "",
     out |-> "none", srv |-> "no", resp |-> 0, sends |-> 0, ev |-> <<>>]

\* client.Do has returned: with an error, or with the handler's response.
Returned(c) == c.st = "failed" \/ (c.st = "inflight" /\ c.srv = "finished")

\* The three kinds of outcome of section 4.1.
Outcome(c) ==
    IF c.st = "failed" THEN "transport_error"
    ELSE IF c.resp = StatusOK THEN "ok" ELSE "rejected"

Close(c) == [c EXCEPT !.st = "closed", !.out = Outcome(c)]


(***************************************************************************)
(* The checkout handler, back-end/main.go:110-142.                         *)
(***************************************************************************)

\* Decode with its error dropped.
DecodeNoError(b) == [err |-> FALSE, order |-> b.order]

\* json.NewDecoder(req.Body).Decode(&order)
Decode(b) == [err |-> ~b.json, order |-> b.order]

\* Lines 112-130: the span and trace id of the inbound context, then the
\* decode; on an error the event, the 400 and the return.
Checkout(r, B) ==
    /\ hpc[r] = "idle"
    /\ \E t \in TraceIds, b \in B :
         LET d == Decode(b) IN
         /\ traceId' = [traceId EXCEPT ![r] = t]
         /\ body' = [body EXCEPT ![r] = b]
         /\ IF d.err
            THEN /\ events' = [events EXCEPT ![r] = Append(@, "Error decoding order json")]
                 /\ status' = [status EXCEPT ![r] = StatusBadRequest]
                 /\ hpc' = [hpc EXCEPT ![r] = "rejected"]
                 /\ UNCHANGED order
            ELSE /\ order' = [order EXCEPT ![r] = d.order]
                 /\ hpc' = [hpc EXCEPT ![r] = "decoded"]
                 /\ UNCHANGED <<events, status>>
    /\ UNCHANGED <<cancelled, respTrace, attempts, posts, calls, measures, calc>>
    /\ UNCHANGED gvars

\* Post with a request that does not carry the inbound context
\* (http.NewRequest): the transport starts a trace of its own.
PostOwnTrace(r, leg, to, payload) ==
    /\ calls' = [calls EXCEPT ![r][leg] =
                    <<NewCall(to, (traceId[r] % MaxTrace) + 1, payload, FALSE)>>]
    /\ attempts' = [attempts EXCEPT ![r][leg] = @ + 1]
    /\ posts' = [posts EXCEPT ![r][to] = @ + 1]

\* One client.Do of the back-end for a leg: the request carries the inbound
\* context, so its trace id, and fails at once when that context is done.
Post(r, leg, to, payload) ==
    /\ calls' = [calls EXCEPT ![r][leg] =
                    <<NewCall(to, traceId[r], payload, cancelled[r])>>]
    /\ attempts' = [attempts EXCEPT ![r][leg] = @ + 1]
    /\ posts' = [posts EXCEPT ![r][to] = @ + 1]

\* PaymentCall that does not wait for client.Do (payment run as go payment()).
PaymentCallNoWait(r) ==
    /\ hpc[r] = "decoded"
    /\ Post(r, "pay", "payment-gateway", PaymentPayload(order[r]))
    /\ hpc' = [hpc EXCEPT ![r] = "paid"]
    /\ UNCHANGED <<measures, calc, body, order, traceId, cancelled, status, respTrace, events>>
    /\ UNCHANGED gvars

\* payment(), lines 151-166: build the payload and issue the POST.
PaymentCall(r) ==
    /\ hpc[r] = "decoded"
    /\ Post(r, "pay", "payment-gateway", PaymentPayload(order[r]))
    /\ hpc' = [hpc EXCEPT ![r] = "payment"]
    /\ UNCHANGED <<measures, calc, body, order, traceId, cancelled, status, respTrace, events>>
    /\ UNCHANGED gvars

\* The event payment() adds for an outcome, lines 170-181.
PaymentEvent(out) ==
    CASE out = "transport_error" -> "Error sending request"
      [] out = "ok" -> "Successfully payment handeled"
      [] OTHER -> "Error Payment Gateway"

\* PaymentReturn that ends the request when the payment did not succeed.
PaymentReturnFailFast(r) ==
    /\ hpc[r] = "payment"
    /\ Returned(calls[r]["pay"][1])
    /\ events' = [events EXCEPT ![r] =
                    Append(@, PaymentEvent(Outcome(calls[r]["pay"][1])))]
    /\ calls' = [calls EXCEPT ![r]["pay"][1] = Close(@)]
    /\ IF Outcome(calls[r]["pay"][1]) = "ok"
       THEN /\ hpc' = [hpc EXCEPT ![r] = "paid"]
            /\ UNCHANGED <<status, respTrace>>
       ELSE /\ hpc' = [hpc EXCEPT ![r] = "done"]
            /\ status' = [status EXCEPT ![r] = StatusOK]
            /\ respTrace' = [respTrace EXCEPT ![r] = traceId[r]]
    /\ UNCHANGED <<measures, calc, body, order, traceId, cancelled, attempts, posts>>
    /\ UNCHANGED gvars

\* payment(), lines 166-182: client.Do returns; annotate; return.
PaymentReturn(r) ==
    /\ hpc[r] = "payment"
    /\ Returned(calls[r]["pay"][1])
    /\ events' = [events EXCEPT ![r] =
                    Append(@, PaymentEvent(Outcome(calls[r]["pay"][1])))]
    /\ calls' = [calls EXCEPT ![r]["pay"][1] = Close(@)]
    /\ hpc' = [hpc EXCEPT ![r] = "paid"]
    /\ UNCHANGED <<measures, calc, body, order, traceId, cancelled, status, respTrace, attempts, posts>>
    /\ UNCHANGED gvars

\* Line 135 with 184-187, 215: make ch1, start the shipping goroutine.
SpawnShipping(r) ==
    /\ hpc[r] = "paid"
    /\ spc' = [spc EXCEPT ![r] = "start"]
    /\ tally' = [tally EXCEPT ![r].spawned = @ + 1]
    /\ hpc' = [hpc EXCEPT ![r] = "spawned"]
    /\ UNCHANGED <<measures, calc, body, order, traceId, cancelled, status, respTrace, events,
                   attempts, posts, calls, ipc, sval, got, invEvents>>

\* SpawnInvoice that starts the goroutine only after a successful payment.
SpawnInvoiceIfPaid(r) ==
    /\ hpc[r] = "spawned"
    /\ IF calls[r]["pay"][1].out = "ok"
       THEN /\ ipc' = [ipc EXCEPT ![r] = "start"]
            /\ tally' = [tally EXCEPT ![r].spawned = @ + 1]
       ELSE UNCHANGED <<ipc, tally>>
    /\ hpc' = [hpc EXCEPT ![r] = "join1"]
    /\ UNCHANGED <<measures, calc, body, order, traceId, cancelled, status, respTrace, events,
                   attempts, posts, calls, spc, sval, got, invEvents>>

\* Line 136 with 218-221, 234: make ch2, start the invoicing goroutine.
SpawnInvoice(r) ==
    /\ hpc[r] = "spawned"
    /\ ipc' = [ipc EXCEPT ![r] = "start"]
    /\ tally' = [tally EXCEPT ![r].spawned = @ + 1]
    /\ hpc' = [hpc EXCEPT ![r] = "join1"]
    /\ UNCHANGED <<measures, calc, body, order, traceId, cancelled, status, respTrace, events,
                   attempts, posts, calls, spc, sval, got, invEvents>>

\* Shipping goroutine, lines 188-194: build the payload, issue the POST.
ShippingCall(r) ==
    /\ spc[r] = "start"
    /\ Post(r, "ship", "shipping-gateway", ShippingPayload(order[r]))
    /\ spc' = [spc EXCEPT ![r] = "call"]
    /\ UNCHANGED <<ipc, sval, got, tally, invEvents, events, cancelled>>
    /\ UNCHANGED hvars

\* The event the shipping goroutine adds for an outcome, lines 198-209.
ShippingEvent(out) ==
    CASE out = "transport_error" -> "Error sending request"
      [] out = "ok" -> "Successfully shipping handeled"
      [] OTHER -> "Error Shipping Gateway"

\* The value sent on the channel: false at line 200, true at line 211.
ShippingSignal(out) == out # "transport_error"

\* ShippingReturn whose error branch returns without the send on r.
ShippingReturnNoSignal(r) ==
    /\ spc[r] = "call"
    /\ Returned(calls[r]["ship"][1])
    /\ LET out == Outcome(calls[r]["ship"][1]) IN
         /\ events' = [events EXCEPT ![r] = Append(@, ShippingEvent(out))]
         /\ sval' = [sval EXCEPT ![r] = ShippingSignal(out)]
         /\ spc' = [spc EXCEPT ![r] = IF out = "transport_error" THEN "done" ELSE "send"]
    /\ calls' = [calls EXCEPT ![r]["ship"][1] = Close(@)]
    /\ UNCHANGED <<ipc, got, tally, invEvents, cancelled, attempts, posts>>
    /\ UNCHANGED hvars

\* Shipping goroutine, lines 194-211: client.Do returns; annotate; reach the
\* send on r.
ShippingReturn(r) ==
    /\ spc[r] = "call"
    /\ Returned(calls[r]["ship"][1])
    /\ LET out == Outcome(calls[r]["ship"][1]) IN
         /\ events' = [events EXCEPT ![r] = Append(@, ShippingEvent(out))]
         /\ sval' = [sval EXCEPT ![r] = ShippingSignal(out)]
    /\ calls' = [calls EXCEPT ![r]["ship"][1] = Close(@)]
    /\ spc' = [spc EXCEPT ![r] = "send"]
    /\ UNCHANGED <<ipc, got, tally, invEvents, cancelled, attempts, posts>>
    /\ UNCHANGED hvars

\* RecvShipping on one channel shared by every request (a package-level
\* channel): the handler takes the value of whichever goroutine is sending.
RecvShippingShared(r) ==
    /\ hpc[r] = "join1"
    /\ \E q \in Req :
          /\ spc[q] = "send"
          /\ got' = [got EXCEPT ![r].ch1 = IF sval[q] THEN "true" ELSE "false"]
          /\ tally' = [tally EXCEPT ![q].sent1 = @ + 1, ![r].recv1 = @ + 1]
          /\ spc' = [spc EXCEPT ![q] = "unwind"]
    /\ hpc' = [hpc EXCEPT ![r] = "join2"]
    /\ UNCHANGED <<measures, calc, body, order, traceId, cancelled, status, respTrace, events,
                   attempts, posts, calls, ipc, sval, invEvents>>

\* Line 137 meeting line 200 or 211: the unbuffered channel hands the value
\* over when the handler is at <-ch1 and the goroutine at r <- v.
RecvShipping(r) ==
    /\ hpc[r] = "join1"
    /\ spc[r] = "send"
    /\ got' = [got EXCEPT ![r].ch1 = IF sval[r] THEN "true" ELSE "false"]
    /\ tally' = [tally EXCEPT ![r].sent1 = @ + 1, ![r].recv1 = @ + 1]
    /\ spc' = [spc EXCEPT ![r] = "unwind"]
    /\ hpc' = [hpc EXCEPT ![r] = "join2"]
    /\ UNCHANGED <<measures, calc, body, order, traceId, cancelled, status, respTrace, events,
                   attempts, posts, calls, ipc, sval, invEvents>>

\* Lines 203, 213: the deferred res.Body.Close() and the goroutine's end.
ShippingExit(r) ==
    /\ spc[r] = "unwind"
    /\ spc' = [spc EXCEPT ![r] = "done"]
    /\ UNCHANGED <<ipc, sval, got, tally, invEvents, events, cancelled, attempts,
                   posts, calls>>
    /\ UNCHANGED hvars

\* InvoiceStart that adds its event to the span found in ctx, the span of
\* the inbound request, and starts no span of its own.
InvoiceStartOnRequestSpan(r) ==
    /\ ipc[r] = "start"
    /\ events' = [events EXCEPT ![r] = Append(@, "Start generating invoice")]
    /\ ipc' = [ipc EXCEPT ![r] = "sleep"]
    /\ UNCHANGED <<spc, sval, got, tally, invEvents, cancelled, attempts, posts, calls>>
    /\ UNCHANGED hvars

\* Invoicing goroutine, lines 222-227: start the generating-invoice span,
\* add the first event, wait on time.After.
InvoiceStart(r) ==
    /\ ipc[r] = "start"
    /\ invEvents' = [invEvents EXCEPT ![r] = Append(@, "Start generating invoice")]
    /\ ipc' = [ipc EXCEPT ![r] = "sleep"]
    /\ UNCHANGED <<spc, sval, got, tally, events, cancelled, attempts, posts, calls>>
    /\ UNCHANGED hvars

\* InvoiceWake that posts the invoice to a billing host before its event.
InvoiceWakeBilling(r) ==
    /\ ipc[r] = "sleep"
    /\ posts' = [posts EXCEPT ![r]["nowhere"] = @ + 1]
    /\ invEvents' = [invEvents EXCEPT ![r] = Append(@, "Successfully invoice generated")]
    /\ ipc' = [ipc EXCEPT ![r] = "send"]
    /\ UNCHANGED <<spc, sval, got, tally, events, cancelled, attempts, calls>>
    /\ UNCHANGED hvars

\* InvoiceWake that reports no invoice when the shipping call has failed.
InvoiceWakeByShipping(r) ==
    /\ ipc[r] = "sleep"
    /\ invEvents' = [invEvents EXCEPT ![r] =
                       Append(@, IF spc[r] \in {"send", "unwind", "done"} /\ ~sval[r]
                                 THEN "No invoice"
                                 ELSE "Successfully invoice generated")]
    /\ ipc' = [ipc EXCEPT ![r] = "send"]
    /\ UNCHANGED <<spc, sval, got, tally, events, cancelled, attempts, posts, calls>>
    /\ UNCHANGED hvars

\* Invoicing goroutine, lines 227-231: the timer fires; add the second
\* event; reach the send on r.
InvoiceWake(r) ==
    /\ ipc[r] = "sleep"
    /\ invEvents' = [invEvents EXCEPT ![r] = Append(@, "Successfully invoice generated")]
    /\ ipc' = [ipc EXCEPT ![r] = "send"]
    /\ UNCHANGED <<spc, sval, got, tally, events, cancelled, attempts, posts, calls>>
    /\ UNCHANGED hvars

\* RecvInvoice in a join that takes whichever signal is ready (a select
\* over ch1 and ch2).
RecvInvoiceAnyOrder(r) ==
    /\ hpc[r] \in {"join1", "join2"}
    /\ ipc[r] = "send"
    /\ got' = [got EXCEPT ![r].ch2 = "true"]
    /\ tally' = [tally EXCEPT ![r].sent2 = @ + 1, ![r].recv2 = @ + 1]
    /\ ipc' = [ipc EXCEPT ![r] = "unwind"]
    /\ hpc' = [hpc EXCEPT ![r] = IF hpc[r] = "join2" THEN "write" ELSE "join1"]
    /\ UNCHANGED <<measures, calc, body, order, traceId, cancelled, status, respTrace, events,
                   attempts, posts, calls, spc, sval, invEvents>>

\* RecvInvoice as a receive that does not wait (select with a default): the
\* handler goes on whether or not the invoicing goroutine is at its send.
RecvInvoiceNoWait(r) ==
    /\ hpc[r] = "join2"
    /\ IF ipc[r] = "send"
       THEN /\ got' = [got EXCEPT ![r].ch2 = "true"]
            /\ tally' = [tally EXCEPT ![r].sent2 = @ + 1, ![r].recv2 = @ + 1]
            /\ ipc' = [ipc EXCEPT ![r] = "unwind"]
       ELSE UNCHANGED <<got, tally, ipc>>
    /\ hpc' = [hpc EXCEPT ![r] = "write"]
    /\ UNCHANGED <<measures, calc, body, order, traceId, cancelled, status, respTrace, events,
                   attempts, posts, calls, spc, sval, invEvents>>

\* Line 138 meeting line 231.
RecvInvoice(r) ==
    /\ hpc[r] = "join2"
    /\ ipc[r] = "send"
    /\ got' = [got EXCEPT ![r].ch2 = "true"]
    /\ tally' = [tally EXCEPT ![r].sent2 = @ + 1, ![r].recv2 = @ + 1]
    /\ ipc' = [ipc EXCEPT ![r] = "unwind"]
    /\ hpc' = [hpc EXCEPT ![r] = "write"]
    /\ UNCHANGED <<measures, calc, body, order, traceId, cancelled, status, respTrace, events,
                   attempts, posts, calls, spc, sval, invEvents>>

\* InvoiceExit whose span.End() waits for the handler to have returned.
InvoiceExitAfterResponse(r) ==
    /\ ipc[r] = "unwind"
    /\ hpc[r] = "done"
    /\ invEvents' = [invEvents EXCEPT ![r] = Append(@, "End")]
    /\ ipc' = [ipc EXCEPT ![r] = "done"]
    /\ UNCHANGED <<spc, sval, got, tally, events, cancelled, attempts, posts, calls>>
    /\ UNCHANGED hvars

\* Lines 223, 232: the deferred span.End() and the goroutine's end.
InvoiceExit(r) ==
    /\ ipc[r] = "unwind"
    /\ invEvents' = [invEvents EXCEPT ![r] = Append(@, "End")]
    /\ ipc' = [ipc EXCEPT ![r] = "done"]
    /\ UNCHANGED <<spc, sval, got, tally, events, cancelled, attempts, posts, calls>>
    /\ UNCHANGED hvars

\* WriteResponse without the receive on ch2 before it.
WriteResponseUnjoined(r) ==
    /\ hpc[r] \in {"join2", "write"}
    /\ status' = [status EXCEPT ![r] = StatusOK]
    /\ respTrace' = [respTrace EXCEPT ![r] = traceId[r]]
    /\ hpc' = [hpc EXCEPT ![r] = "done"]
    /\ UNCHANGED <<measures, calc, body, order, traceId, cancelled, events, attempts, posts, calls>>
    /\ UNCHANGED gvars

\* WriteResponse answering 502 when the shipping leg signalled false.
WriteResponseByOutcome(r) ==
    /\ hpc[r] = "write"
    /\ status' = [status EXCEPT ![r] = IF got[r].ch1 = "false" THEN 502 ELSE StatusOK]
    /\ respTrace' = [respTrace EXCEPT ![r] = traceId[r]]
    /\ hpc' = [hpc EXCEPT ![r] = "done"]
    /\ UNCHANGED <<measures, calc, body, order, traceId, cancelled, events, attempts, posts, calls>>
    /\ UNCHANGED gvars

\* Line 141: the first write to w sends status 200 and the body.
WriteResponse(r) ==
    /\ hpc[r] = "write"
    /\ status' = [status EXCEPT ![r] = StatusOK]
    /\ respTrace' = [respTrace EXCEPT ![r] = traceId[r]]
    /\ hpc' = [hpc EXCEPT ![r] = "done"]
    /\ UNCHANGED <<measures, calc, body, order, traceId, cancelled, events, attempts, posts, calls>>
    /\ UNCHANGED gvars

(***************************************************************************)
(* The inbound request's context.  net/http cancels it when the caller's   *)
(* connection goes away; the back-end's outbound requests are made with    *)
(* http.NewRequestWithContext(ctx, ...) on that same context (lines 112,   *)
(* 164, 192), so a call in flight then returns the context's error.        *)
(***************************************************************************)
CallerGone(r) ==
    /\ hpc[r] \notin {"idle", "rejected", "done"}
    /\ ~cancelled[r]
    /\ cancelled' = [cancelled EXCEPT ![r] = TRUE]
    /\ UNCHANGED <<events, attempts, posts, calls>>
    /\ UNCHANGED hvars
    /\ UNCHANGED gvars

\* ContextAbort that needs no cancellation: a deadline on the call.
ContextAbortDeadline(r, leg) ==
    /\ calls[r][leg] # <<>>
    /\ calls[r][leg][1].st = "inflight"
    /\ calls' = [calls EXCEPT ![r][leg][1].st = "failed", ![r][leg][1].why = "ctx"]
    /\ UNCHANGED <<events, attempts, posts, cancelled>>
    /\ UNCHANGED hvars
    /\ UNCHANGED gvars


ContextAbort(r, leg) ==
    /\ cancelled[r]
    /\ calls[r][leg] # <<>>
    /\ calls[r][leg][1].st = "inflight"
    /\ calls' = [calls EXCEPT ![r][leg][1].st = "failed", ![r][leg][1].why = "ctx"]
    /\ UNCHANGED <<events, attempts, posts, cancelled>>
    /\ UNCHANGED hvars
    /\ UNCHANGED gvars

(***************************************************************************)
(* The called services.  Call k of a chain is handled by the service named *)
(* by its target; call k+1 is the one that handler makes.                  *)
(***************************************************************************)

\* The event a gateway's send adds for the outcome of its vendor call:
\* payment-gateway/main.go:153-162, shipping-gateway/main.go:149-158.
SendEvent(out) ==
    CASE out = "transport_error" -> "Error sending request"
      [] out = "ok" -> "Successfully paid"
      [] OTHER -> "Error status"

\* A gateway handler up to client.Do: paymentHandler and send,
\* payment-gateway/main.go:108-149; shippingHandler and send,
\* shipping-gateway/main.go:105-146.  A body that does not decode is
\* answered 400; otherwise one POST goes to the host the key names.  When
\* the key is no host name, http.NewRequest returns nil and its error is
\* dropped (lines 140, 137): the next use of the request panics (142, 140),
\* net/http recovers the panic and closes the connection with no response,
\* and the caller's client.Do returns an error.
GatewayReceive(r, leg, k) ==
    LET c == calls[r][leg][k]
        to == RouteKey(c.to, c.payload)
    IN  IF ~c.payload.json
        THEN /\ calls' = [calls EXCEPT ![r][leg][k] =
                            [c EXCEPT !.srv = "finished",
                                      !.resp = StatusBadRequest,
                                      !.ev = Append(@, "Error decoding json")]]
             /\ UNCHANGED posts
        ELSE IF ~ValidHost(to)
        THEN /\ calls' = [calls EXCEPT ![r][leg][k] =
                            [c EXCEPT !.srv = "panicked",
                                      !.st = "failed", !.why = "net"]]
             /\ UNCHANGED posts
        ELSE /\ calls' = [calls EXCEPT ![r][leg] =
                            Append([@ EXCEPT ![k] = [c EXCEPT !.srv = "handling",
                                                             !.sends = @ + 1]],
                                   NewCall(to, c.trace,
                                           ForwardPayload(c.to, c.payload), FALSE))]
             /\ posts' = [posts EXCEPT ![r][to] = @ + 1]

\* A vendor handler up to its simulated work: paypalHandler and pay,
\* paypal/main.go:108-142 (credit, fedex, dhl and toll alike).
VendorReceive(r, leg, k) ==
    LET c == calls[r][leg][k] IN
    /\ calls' = [calls EXCEPT ![r][leg][k] =
                    IF ~c.payload.json
                    THEN [c EXCEPT !.srv = "finished", !.resp = StatusBadRequest,
                                   !.ev = Append(@, "Error decoding json")]
                    ELSE [c EXCEPT !.srv = "handling",
                                   !.ev = Append(@, "Start")]]
    /\ UNCHANGED posts

\* The back-end registers /checkout alone (line 146): a POST to its root
\* is answered 404 by the mux, and no handler of the program runs.
BackEndRootReceive(r, leg, k) ==
    /\ calls' = [calls EXCEPT ![r][leg][k].srv = "finished",
                              ![r][leg][k].resp = 404]
    /\ UNCHANGED posts

\* A request in flight reaches the service it is addressed to.
Deliver(r, leg, k) ==
    /\ k \in DOMAIN calls[r][leg]
    /\ calls[r][leg][k].st = "inflight"
    /\ calls[r][leg][k].srv = "no"
    /\ calls[r][leg][k].to \in Services
    /\ CASE calls[r][leg][k].to \in Gateways -> GatewayReceive(r, leg, k)
         [] calls[r][leg][k].to \in Vendors -> VendorReceive(r, leg, k)
         [] OTHER -> BackEndRootReceive(r, leg, k)
    /\ UNCHANGED <<events, attempts, cancelled>>
    /\ UNCHANGED hvars
    /\ UNCHANGED gvars

\* pay() / ship() after the timer, then the handler's response write:
\* paypal/main.go:142-146 and 126.
VendorFinish(r, leg, k) ==
    /\ k \in DOMAIN calls[r][leg]
    /\ calls[r][leg][k].to \in Vendors
    /\ calls[r][leg][k].srv = "handling"
    /\ calls' = [calls EXCEPT ![r][leg][k].srv = "finished",
                              ![r][leg][k].resp = StatusOK,
                              ![r][leg][k].ev = Append(@, "Successfully")]
    /\ UNCHANGED <<events, attempts, posts, cancelled>>
    /\ UNCHANGED hvars
    /\ UNCHANGED gvars

\* GatewayReturn for a send that does not wait for its vendor (client.Do in
\* a goroutine of its own): the handler answers while the call is in flight.
GatewayReturnNoWait(r, leg, k) ==
    /\ k + 1 \in DOMAIN calls[r][leg]
    /\ calls[r][leg][k].to \in Gateways
    /\ calls[r][leg][k].srv = "handling"
    /\ calls' = [calls EXCEPT
                    ![r][leg][k].srv = "finished",
                    ![r][leg][k].resp = StatusOK]
    /\ UNCHANGED <<events, attempts, posts, cancelled>>
    /\ UNCHANGED hvars
    /\ UNCHANGED gvars

\* send() after client.Do, then the handler's response write:
\* payment-gateway/main.go:149-163 and 126, shipping-gateway/main.go:146-159
\* and 123.
GatewayReturn(r, leg, k) ==
    /\ k + 1 \in DOMAIN calls[r][leg]
    /\ calls[r][leg][k].to \in Gateways
    /\ calls[r][leg][k].srv = "handling"
    /\ Returned(calls[r][leg][k + 1])
    /\ calls' = [calls EXCEPT
                    ![r][leg][k].srv = "finished",
                    ![r][leg][k].resp = StatusOK,
                    ![r][leg][k].ev = Append(@, SendEvent(Outcome(calls[r][leg][k + 1]))),
                    ![r][leg][k + 1] = Close(@)]
    /\ UNCHANGED <<events, attempts, posts, cancelled>>
    /\ UNCHANGED hvars
    /\ UNCHANGED gvars

\* The transport fails a call: the name does not resolve, the connection is
\* refused or breaks.  What the called handler has started goes on.
TransportFail(r, leg, k) ==
    /\ k \in DOMAIN calls[r][leg]
    /\ calls[r][leg][k].st = "inflight"
    /\ calls' = [calls EXCEPT ![r][leg][k].st = "failed",
                              ![r][leg][k].why = "net"]
    /\ UNCHANGED <<events, attempts, posts, cancelled>>
    /\ UNCHANGED hvars
    /\ UNCHANGED gvars

\* The transport fails a call before the request is sent.
ConnectFail(r, leg, k) ==
    /\ k \in DOMAIN calls[r][leg]
    /\ calls[r][leg][k].srv = "no"
    /\ TransportFail(r, leg, k)

\* No chain is longer than this: see GatewayReceive, whose forward carries
\* no routing key.
Depth == 1..3

\* The steps of the handler of request r after the decode, and of its two
\* goroutines.
Handler(r) ==
    \/ PaymentCall(r)
    \/ PaymentReturn(r)
    \/ SpawnShipping(r)
    \/ SpawnInvoice(r)
    \/ RecvShipping(r)
    \/ RecvInvoice(r)
    \/ WriteResponse(r)

Goroutines(r) ==
    \/ ShippingCall(r)
    \/ ShippingReturn(r)
    \/ ShippingExit(r)
    \/ InvoiceStart(r)
    \/ InvoiceWake(r)
    \/ InvoiceExit(r)

\* The steps of the services called on behalf of request r.
Served(r) ==
    \E leg \in Legs, k \in Depth :
        \/ Deliver(r, leg, k)
        \/ VendorFinish(r, leg, k)
        \/ GatewayReturn(r, leg, k)

\* One checkout, every body, and everything its surroundings can do.
Next ==
    \/ Checkout(1, Bodies)
    \/ Handler(1)
    \/ Goroutines(1)
    \/ Served(1)
    \/ CallerGone(1)
    \/ \E leg \in Legs : ContextAbort(1, leg)
    \/ \E leg \in Legs, k \in Depth : TransportFail(1, leg, k)

Spec == Init /\ [][Next]_vars

\* NReq checkouts handled together; a call fails only by not connecting.
ConcNext ==
    \E r \in Req :
        \/ Checkout(r, FewBodies)
        \/ Handler(r)
        \/ Goroutines(r)
        \/ Served(r)
        \/ \E leg \in Legs, k \in Depth : ConnectFail(r, leg, k)

ConcSpec == Init /\ [][ConcNext]_vars

(***************************************************************************)
(* Properties of the checkout.                                             *)
(***************************************************************************)

Arrived(r) == hpc[r] # "idle"
WellFormed(r) == Arrived(r) /\ body[r].json

\* The outcome the back-end observed for a leg, "none" until it has.
LegOutcome(r, leg) ==
    IF calls[r][leg] = <<>> THEN "none" ELSE calls[r][leg][1].out

Outcomes == {"ok", "rejected", "transport_error"}

\* C1: the response of a well-formed checkout is written only after the
\* handler has received one value from the shipping leg's channel and one
\* from the invoicing leg's channel, in every interleaving.
C1_JoinBeforeResponse ==
    \A r \in Req :
        (hpc[r] = "done" \/ status[r] = StatusOK) =>
            /\ got[r].ch1 \in {"true", "false"}
            /\ got[r].ch2 = "true"
            /\ spc[r] \in {"unwind", "done"}
            /\ ipc[r] \in {"unwind", "done"}

\* The response is written while the shipping leg had signalled false.
C1_Witness ==
    \E r \in Req : status[r] = StatusOK /\ got[r].ch1 = "false" /\ got[r].ch2 = "true"

\* C2: the payment call is issued and has returned with an outcome before
\* either goroutine is started; within a request the order is payment, then
\* shipping and invoicing side by side, then the response.
C2_PaymentBeforeFanout ==
    \A r \in Req :
        /\ (spc[r] # "none" \/ ipc[r] # "none") =>
               /\ attempts[r]["pay"] = 1
               /\ LegOutcome(r, "pay") \in Outcomes
               /\ calls[r]["pay"][1].st = "closed"
        /\ hpc[r] \in {"idle", "decoded", "payment", "paid", "rejected"} =>
               /\ spc[r] = "none" /\ ipc[r] = "none"
               /\ calls[r]["ship"] = <<>>
        /\ status[r] = StatusOK =>
               /\ LegOutcome(r, "ship") \in Outcomes
               /\ spc[r] \in {"unwind", "done"}
               /\ ipc[r] \in {"unwind", "done"}

\* Both goroutines are at work at once, after a rejected payment.
C2_Witness ==
    \E r \in Req :
        /\ LegOutcome(r, "pay") = "rejected"
        /\ spc[r] = "call"
        /\ ipc[r] = "sleep"

\* C3: a body that does not decode is answered 400 and nothing else
\* happens for that request: no payment call, no shipping call, no
\* goroutine.
C3_DecodeGate ==
    \A r \in Req :
        (Arrived(r) /\ ~body[r].json) =>
            /\ status[r] = StatusBadRequest
            /\ hpc[r] = "rejected"
            /\ attempts[r] = [l \in Legs |-> 0]
            /\ calls[r] = [l \in Legs |-> <<>>]
            /\ \A h \in AllHosts : posts[r][h] = 0
            /\ spc[r] = "none"
            /\ ipc[r] = "none"
            /\ ~ENABLED (Handler(r) \/ Goroutines(r) \/ Served(r))

C3_Witness ==
    \E r \in Req : hpc[r] = "rejected" /\ ~body[r].json /\ status[r] = StatusBadRequest

\* C4: the status is 400 exactly when the decode fails and 200 otherwise,
\* whatever the payment and shipping outcomes: it is a function of the
\* body alone.
C4_StatusByBody ==
    \A r \in Req :
        /\ status[r] \in {0, StatusOK, StatusBadRequest}
        /\ status[r] = StatusBadRequest <=> (Arrived(r) /\ ~body[r].json)
        /\ status[r] = StatusOK => WellFormed(r)
        /\ hpc[r] \in {"done", "rejected"} =>
               status[r] = IF body[r].json THEN StatusOK ELSE StatusBadRequest

\* 200 after a rejected payment and a shipping call that failed.
C4_Witness ==
    \E r \in Req :
        /\ hpc[r] = "done" /\ status[r] = StatusOK
        /\ LegOutcome(r, "pay") = "rejected"
        /\ LegOutcome(r, "ship") = "transport_error"

\* C5: whatever the payment outcome, both legs are launched; whatever the
\* shipping outcome, the invoicing leg completes and the handler joins on
\* both signals.  No outcome ends the request early or skips a leg.
C5_BestEffort ==
    \A r \in Req :
        /\ hpc[r] = "paid" => ENABLED SpawnShipping(r)
        /\ hpc[r] = "spawned" => ENABLED SpawnInvoice(r)
        /\ spc[r] = "send" /\ hpc[r] = "join1" => ENABLED RecvShipping(r)
        /\ ipc[r] \in {"start", "sleep"} => ENABLED (InvoiceStart(r) \/ InvoiceWake(r))
        /\ ipc[r] = "send" /\ hpc[r] = "join2" => ENABLED RecvInvoice(r)
        /\ (WellFormed(r) /\ LegOutcome(r, "pay") # "none") =>
               hpc[r] \in {"payment", "paid", "spawned", "join1", "join2", "write", "done"}
        /\ hpc[r] = "done" =>
               /\ LegOutcome(r, "pay") \in Outcomes
               /\ LegOutcome(r, "ship") \in Outcomes
               /\ got[r].ch1 # "none" /\ got[r].ch2 = "true"
               /\ Len(invEvents[r]) >= 2
               /\ invEvents[r][2] = "Successfully invoice generated"

\* The request completes after a failed payment and a rejected shipping.
C5_Witness ==
    \E r \in Req :
        /\ hpc[r] = "done"
        /\ LegOutcome(r, "pay") = "transport_error"
        /\ LegOutcome(r, "ship") = "rejected"
        /\ got[r].ch2 = "true"

(***************************************************************************)
(* One checkout under fair scheduling: every goroutine that can run does,  *)
(* every request in flight is delivered or fails, every called handler     *)
(* finishes, and a name that does not resolve fails the call.              *)
(***************************************************************************)
LiveNext ==
    \/ Checkout(1, LiveBodies)
    \/ Handler(1)
    \/ Goroutines(1)
    \/ Served(1)
    \/ CallerGone(1)
    \/ \E leg \in Legs : ContextAbort(1, leg)
    \/ \E leg \in Legs, k \in Depth : TransportFail(1, leg, k)

ResolveFail(r, leg, k) ==
    /\ k \in DOMAIN calls[r][leg]
    /\ calls[r][leg][k].to \notin Services
    /\ TransportFail(r, leg, k)

Fairness ==
    /\ WF_vars(Handler(1))
    /\ WF_vars(ShippingCall(1) \/ ShippingReturn(1) \/ ShippingExit(1))
    /\ WF_vars(InvoiceStart(1) \/ InvoiceWake(1) \/ InvoiceExit(1))
    /\ \A leg \in Legs, k \in Depth :
          /\ WF_vars(Deliver(1, leg, k))
          /\ WF_vars(VendorFinish(1, leg, k))
          /\ WF_vars(GatewayReturn(1, leg, k))
          /\ WF_vars(ResolveFail(1, leg, k))

LiveSpec == Init /\ [][LiveNext]_vars /\ Fairness

\* C6: the trace id in the response body is the one carried by the payment
\* request and by the shipping request of the same checkout, and by every
\* request their gateways forward; checkouts handled together keep their own.
C6_OneTrace ==
    \A r \in Req :
        /\ \A leg \in Legs : \A k \in DOMAIN calls[r][leg] :
               calls[r][leg][k].trace = traceId[r]
        /\ respTrace[r] # 0 =>
               /\ respTrace[r] = traceId[r]
               /\ calls[r]["pay"][1].trace = respTrace[r]
               /\ calls[r]["ship"][1].trace = respTrace[r]

\* Two checkouts with different trace ids are in their fan-out together and
\* one of them has answered.
C6_Witness ==
    \E r1 \in Req, r2 \in Req :
        /\ respTrace[r1] # 0
        /\ calls[r2]["ship"] # <<>>
        /\ traceId[r2] # 0
        /\ traceId[r1] # traceId[r2]

\* C7: under fair scheduling, with calls that return, every well-formed
\* checkout reaches its response; the handler does not block for ever on
\* the channels of its legs.
C7_Completes == (hpc[1] = "decoded") ~> (hpc[1] = "done" /\ status[1] = StatusOK)

\* The response is written after the shipping call failed.
C7_Witness ==
    /\ hpc[1] = "done"
    /\ status[1] = StatusOK
    /\ LegOutcome(1, "ship") = "transport_error"
    /\ got[1].ch1 = "false"

\* C8 as stated: the inbound context's cancellation never fails a call of
\* the back-end.
C8_NoCancellation ==
    \A r \in Req, leg \in Legs :
        calls[r][leg] # <<>> => calls[r][leg][1].why # "ctx"

\* C8, amended: a payment or shipping call of the back-end ends through the
\* collaborator's response, a transport failure, or the cancellation of the
\* inbound request's context, and through nothing else; until one of them
\* happens the handler waits and no response is written.
C8_CallEnds ==
    \A r \in Req, leg \in Legs :
        calls[r][leg] # <<>> =>
            LET c == calls[r][leg][1] IN
            /\ c.why = "ctx" => cancelled[r]
            /\ c.st = "closed" =>
                 \/ c.out \in {"ok", "rejected"} /\ c.srv = "finished" /\ c.why = ""
                 \/ c.out = "transport_error" /\ c.why \in {"net", "ctx"}
            /\ (c.st = "inflight" /\ c.srv # "finished") =>
                 /\ status[r] = 0
                 /\ leg = "pay" => hpc[r] = "payment" /\ ~ENABLED Handler(r)
                 /\ leg = "ship" => spc[r] = "call" /\ ~ENABLED ShippingReturn(r)

\* A call that had reached its gateway was ended by the cancellation.
C8_Witness ==
    \E r \in Req :
        /\ calls[r]["pay"] # <<>>
        /\ calls[r]["pay"][1].st = "closed"
        /\ calls[r]["pay"][1].why = "ctx"
        /\ calls[r]["pay"][1].srv = "handling"

\* C9: one attempt per invocation.  The back-end makes exactly one POST to
\* payment-gateway and one to shipping-gateway per well-formed checkout,
\* whatever the outcome, and a gateway's send makes exactly one.
C9_OneAttempt ==
    \A r \in Req :
        /\ \A leg \in Legs : attempts[r][leg] <= 1 /\ Len(calls[r][leg]) <= 3
        /\ hpc[r] \in {"payment", "paid", "spawned", "join1", "join2", "write", "done"}
              => attempts[r]["pay"] = 1
        /\ spc[r] \in {"call", "send", "unwind", "done"} => attempts[r]["ship"] = 1
        /\ hpc[r] = "done" => attempts[r] = [l \in Legs |-> 1]
        /\ \A leg \in Legs : \A k \in DOMAIN calls[r][leg] :
              LET c == calls[r][leg][k] IN
              IF c.to \in Gateways /\ c.srv # "no" /\ c.payload.json
              THEN c.sends = 1 /\ k + 1 \in DOMAIN calls[r][leg]
              ELSE c.sends = 0

\* C10 as stated: scenario A ends with 200 and, over the whole run, exactly
\* one call to payment-gateway and one to shipping-gateway.
C10_OneCallEach ==
    \A r \in Req :
        (hpc[r] = "done" /\ order[r] = ScenarioA) =>
            /\ status[r] = StatusOK
            /\ posts[r]["payment-gateway"] = 1
            /\ posts[r]["shipping-gateway"] = 1

\* C10, amended: scenario A ends with 200 and exactly one call of the
\* back-end to each gateway; a gateway that receives its call forwards it to
\* the host its key names, which is itself, so over the whole run each
\* gateway is called twice when the back-end's call reaches it and once
\* when it does not, and no other named host is called.
C10_ScenarioA ==
    \A r \in Req :
        (hpc[r] = "done" /\ order[r] = ScenarioA) =>
            /\ status[r] = StatusOK
            /\ attempts[r] = [l \in Legs |-> 1]
            /\ posts[r]["payment-gateway"] =
                  IF calls[r]["pay"][1].srv = "no" THEN 1 ELSE 2
            /\ posts[r]["shipping-gateway"] =
                  IF calls[r]["ship"][1].srv = "no" THEN 1 ELSE 2
            /\ \A h \in AllHosts \ (Gateways \cup {""}) : posts[r][h] = 0

\* Scenario A has run with no failure: each gateway was called twice.
C10_Witness ==
    \E r \in Req :
        /\ hpc[r] = "done" /\ order[r] = ScenarioA
        /\ LegOutcome(r, "pay") = "ok" /\ LegOutcome(r, "ship") = "ok"
        /\ posts[r]["payment-gateway"] = 2
        /\ posts[r]["shipping-gateway"] = 2

\* C11: scenario B.  For a well-formed order whose basket is empty, the
\* amount in the payment payload sent to payment-gateway is 0, and the
\* response is 200.
C11_EmptyBasketZero ==
    \A r \in Req :
        (WellFormed(r) /\ order[r].basket = 0) =>
            /\ calls[r]["pay"] # <<>> => calls[r]["pay"][1].payload.amount = 0
            /\ hpc[r] = "done" => status[r] = StatusOK

\* C12: a gateway answers 400, and calls no vendor, when the body it
\* receives does not decode; otherwise it answers 200 for every value of the
\* method or vendor field and every outcome of its vendor call, its handler
\* reaching the response write once send has returned.
C12_GatewayAnswers ==
    \A r \in Req, leg \in Legs : \A k \in DOMAIN calls[r][leg] :
        LET c == calls[r][leg][k] IN
        (c.to \in Gateways /\ c.srv # "no") =>
            IF ~c.payload.json
            THEN /\ c.srv = "finished" /\ c.resp = StatusBadRequest
                 /\ c.sends = 0
                 /\ k + 1 \notin DOMAIN calls[r][leg]
            ELSE /\ c.srv \in {"handling", "finished"}
                 /\ c.srv = "finished" => c.resp = StatusOK
                 /\ c.srv = "handling" =>
                      /\ k + 1 \in DOMAIN calls[r][leg]
                      /\ Returned(calls[r][leg][k + 1]) => ENABLED GatewayReturn(r, leg, k)

\* C13: the value the shipping goroutine sends on its channel is true
\* exactly when the shipping-gateway call returned status 200, and false on
\* a transport error and on any other status.
C13_SuccessFlag ==
    \A r \in Req :
        /\ spc[r] \in {"send", "unwind", "done"} =>
               (sval[r] <=> LegOutcome(r, "ship") = "ok")
        /\ got[r].ch1 # "none" =>
               (got[r].ch1 = "true" <=> LegOutcome(r, "ship") = "ok")

\* The kind of an outcome event: "err" carries the error text (attribute
\* err), "status" the status code (attribute status), "success" neither.
EventKind(e) ==
    CASE e = "Error sending request" -> "err"
      [] e \in {"Error Payment Gateway", "Error Shipping Gateway", "Error status"} -> "status"
      [] e \in {"Successfully payment handeled", "Successfully shipping handeled",
                "Successfully paid"} -> "success"
      [] OTHER -> "none"

\* The kind of event an outcome calls for.
OutcomeKind(out) ==
    CASE out = "transport_error" -> "err"
      [] out = "rejected" -> "status"
      [] out = "ok" -> "success"
      [] OTHER -> "none"

\* The outcome events among the events of a span.
OutcomeEvents(evs) == SelectSeq(evs, LAMBDA e : EventKind(e) # "none")

\* C14: every collaborator invocation (the back-end's payment, its shipping,
\* a gateway's send) records exactly one outcome event, of the kind its
\* outcome fixes: the error text for a transport failure, the status code
\* for a status other than 200, a success event for 200.  None records zero
\* or two, and none raises its outcome to its caller.
C14_OneAnnotation ==
    \A r \in Req :
        /\ LET evs == OutcomeEvents(events[r])
               pay == LegOutcome(r, "pay")
               ship == LegOutcome(r, "ship")
           IN  /\ Len(evs) = (IF pay = "none" THEN 0 ELSE 1) + (IF ship = "none" THEN 0 ELSE 1)
               /\ pay # "none" => EventKind(evs[1]) = OutcomeKind(pay) /\ hpc[r] # "payment"
               /\ ship # "none" => EventKind(evs[2]) = OutcomeKind(ship) /\ spc[r] # "call"
        /\ \A leg \in Legs : \A k \in DOMAIN calls[r][leg] :
              LET c == calls[r][leg][k] IN
              (c.to \in Gateways /\ c.payload.json /\ c.srv # "no") =>
                  /\ c.srv \in {"handling", "finished"}
                  /\ c.srv = "handling" => OutcomeEvents(c.ev) = <<>>
                  /\ c.srv = "finished" =>
                        /\ Len(OutcomeEvents(c.ev)) = 1
                        /\ EventKind(OutcomeEvents(c.ev)[1]) = OutcomeKind(calls[r][leg][k + 1].out)
                        /\ c.resp = StatusOK

\* What a finished checkout shows apart from its shipping leg: the payment
\* annotation, the invoicing events up to the send, the invoicing signal,
\* the status and the trace id of the response.
Frame(r) ==
    [payment |-> events[r][1],
     invoice |-> SubSeq(invEvents[r], 1, 2),
     signal |-> got[r].ch2,
     status |-> status[r],
     trace |-> respTrace[r]]

\* C15: scenario D.  When the shipping call alone fails with a transport
\* error, the failure is annotated for the shipping leg and nowhere else:
\* the payment annotation, the invoicing events and signal, and the response
\* are those of the run in which shipping succeeded.
C15_ShippingFailureFramed ==
    \A r \in Req :
        hpc[r] = "done" =>
            /\ Len(events[r]) = 2
            /\ events[r][2] = ShippingEvent(LegOutcome(r, "ship"))
            /\ Frame(r) = [payment |-> PaymentEvent(LegOutcome(r, "pay")),
                           invoice |-> <<"Start generating invoice",
                                         "Successfully invoice generated">>,
                           signal |-> "true",
                           status |-> StatusOK,
                           trace |-> traceId[r]]

\* Payment succeeded, the shipping call failed, and the checkout is answered.
C15_Witness ==
    \E r \in Req :
        /\ hpc[r] = "done"
        /\ LegOutcome(r, "pay") = "ok"
        /\ LegOutcome(r, "ship") = "transport_error"
        /\ events[r] = <<"Successfully payment handeled", "Error sending request">>
        /\ got[r].ch2 = "true"

\* C16: a request that decodes starts exactly two goroutines, shipping and
\* invoicing, and a request that does not starts none; each goroutine sends
\* exactly one value on its own channel on every branch, and the handler
\* receives exactly one value from each channel.
C16_TwoGoroutines ==
    \A r \in Req :
        LET t == tally[r] IN
        /\ t.spawned = (IF spc[r] = "none" THEN 0 ELSE 1) + (IF ipc[r] = "none" THEN 0 ELSE 1)
        /\ hpc[r] \in {"join1", "join2", "write", "done"} => t.spawned = 2
        /\ hpc[r] \in {"idle", "rejected", "decoded", "payment", "paid"} => t.spawned = 0
        /\ t.sent1 = t.recv1 /\ t.sent2 = t.recv2
        /\ t.sent1 = (IF spc[r] \in {"unwind", "done"} THEN 1 ELSE 0)
        /\ t.sent2 = (IF ipc[r] \in {"unwind", "done"} THEN 1 ELSE 0)
        /\ t.recv1 = (IF got[r].ch1 = "none" THEN 0 ELSE 1)
        /\ t.recv2 = (IF got[r].ch2 = "none" THEN 0 ELSE 1)
        /\ hpc[r] = "done" => t.recv1 = 1 /\ t.recv2 = 1

\* The goroutine whose call failed has sent its one value and ended, and
\* the handler has taken one value from each channel.
C16_Witness ==
    \E r \in Req :
        /\ hpc[r] = "done"
        /\ spc[r] = "done" /\ ipc[r] = "done"
        /\ LegOutcome(r, "ship") = "transport_error"
        /\ tally[r] = [spawned |-> 2, sent1 |-> 1, recv1 |-> 1, sent2 |-> 1, recv2 |-> 1]

\* C17: no two tasks of a checkout write the same object at once.  The span
\* of the inbound request is written by the handler before any goroutine
\* exists (the decode error, the payment annotation) and by the shipping
\* goroutine during the fan-out, while the handler only starts goroutines
\* and waits; the invoicing goroutine writes the span of its own and nothing
\* else; the order is not written after the decode.
C17_NoSharedWrites ==
    [][\A r \in Req :
        /\ events'[r] # events[r] =>
              \/ /\ spc[r] = "none" /\ ipc[r] = "none"
                 /\ spc'[r] = "none" /\ ipc'[r] = "none"
                 /\ hpc[r] \in {"idle", "payment"} /\ hpc'[r] # hpc[r]
              \/ /\ spc[r] = "call" /\ spc'[r] = "send"
                 /\ hpc[r] \in {"spawned", "join1"} /\ hpc'[r] = hpc[r]
                 /\ ipc'[r] = ipc[r] /\ invEvents'[r] = invEvents[r]
        /\ invEvents'[r] # invEvents[r] =>
              /\ ipc[r] \in {"start", "sleep", "unwind"} /\ ipc'[r] # ipc[r]
              /\ events'[r] = events[r]
              /\ hpc'[r] = hpc[r] /\ spc'[r] = spc[r]
        /\ hpc[r] # "idle" => order'[r] = order[r]
      ]_vars

\* The shipping goroutine has annotated the request's span while the
\* invoicing goroutine, its own span open, is waiting on its timer.
C17_Witness ==
    \E r \in Req :
        /\ hpc[r] = "join1"
        /\ spc[r] = "send"
        /\ ipc[r] = "sleep"
        /\ Len(events[r]) = 2
        /\ invEvents[r] = <<"Start generating invoice">>

\* Everything the model holds for request r.
Own(r) ==
    <<hpc[r], body[r], order[r], traceId[r], cancelled[r], status[r], respTrace[r],
      spc[r], ipc[r], sval[r], got[r], tally[r], events[r], invEvents[r],
      attempts[r], posts[r], calls[r], measures[r]>>

\* C18: checkouts handled together are independent.  Each handler has two
\* channels of its own: a step belongs to one request and leaves every other
\* request as it was, a handler's receive takes the value of its own
\* goroutine, and a handler at its join whose goroutine is at its send is
\* never held back by another request, blocked or not.
C18_Independent ==
    /\ [](\A r \in Req :
            /\ (hpc[r] = "join1" /\ spc[r] = "send") => ENABLED RecvShipping(r)
            /\ (hpc[r] = "join2" /\ ipc[r] = "send") => ENABLED RecvInvoice(r)
            /\ hpc[r] = "write" => ENABLED WriteResponse(r))
    /\ [][/\ \E r \in Req : \A q \in Req \ {r} : Own(q)' = Own(q)
          /\ \A r \in Req :
               /\ got'[r].ch1 # got[r].ch1 =>
                     /\ hpc[r] = "join1" /\ spc[r] = "send" /\ spc'[r] = "unwind"
                     /\ got'[r].ch1 = (IF sval[r] THEN "true" ELSE "false")
               /\ got'[r].ch2 # got[r].ch2 =>
                     /\ hpc[r] = "join2" /\ ipc[r] = "send" /\ ipc'[r] = "unwind"
         ]_vars

\* One checkout is answered while another waits on its payment call.
C18_Witness ==
    \E r \in Req, q \in Req :
        /\ r # q
        /\ hpc[r] = "done" /\ status[r] = StatusOK
        /\ hpc[q] = "payment"
        /\ calls[q]["pay"][1].st = "inflight"
        /\ got[q] = [ch1 |-> "none", ch2 |-> "none"]

\* C19: the invoicing leg issues no collaborator call and depends on no
\* outcome: for every well-formed order it waits on its timer and then
\* signals true, and the outbound calls of a checkout are the payment call
\* and the shipping call alone.
C19_InvoiceLocal ==
    /\ [](\A r \in Req :
            /\ got[r].ch2 \in {"none", "true"}
            /\ ipc[r] \in {"send", "unwind", "done"} =>
                  SubSeq(invEvents[r], 1, 2) = <<"Start generating invoice",
                                                 "Successfully invoice generated">>
            /\ \A leg \in Legs :
                  /\ attempts[r][leg] = (IF calls[r][leg] = <<>> THEN 0 ELSE 1)
                  /\ calls[r][leg] # <<>> =>
                        calls[r][leg][1].to =
                           (IF leg = "pay" THEN "payment-gateway" ELSE "shipping-gateway"))
    /\ [][\A r \in Req :
             (ipc'[r] # ipc[r] /\ ipc[r] \in {"start", "sleep", "unwind"}) =>
                 /\ calls' = calls /\ attempts' = attempts /\ posts' = posts
                 /\ events' = events /\ sval' = sval
         ]_vars

\* The invoice is generated and ready to be signalled after a payment that
\* failed and while the shipping call is still in flight.
C19_Witness ==
    \E r \in Req :
        /\ ipc[r] = "send"
        /\ LegOutcome(r, "pay") = "transport_error"
        /\ spc[r] = "call"
        /\ calls[r]["ship"][1].st = "inflight"
        /\ invEvents[r] = <<"Start generating invoice", "Successfully invoice generated">>

\* The gateway of a leg, and the routing key the order holds for it.
GatewayOf(leg) == IF leg = "pay" THEN "payment-gateway" ELSE "shipping-gateway"
OrderKey(o, leg) == IF leg = "pay" THEN o.payment ELSE o.shipping

\* C20: routing by key.  On a well-formed request a gateway issues its one
\* outbound POST to the host its method or vendor field names; the back-end
\* copies order.payment into method and order.shipping into vendor
\* unchanged, so the vendor reached is the one the order names; and no other
\* host is called.
C20_RoutedByKey ==
    \A r \in Req :
        /\ \A leg \in Legs :
              (calls[r][leg] # <<>> /\ calls[r][leg][1].payload.json) =>
                  LET c == calls[r][leg][1] IN
                  /\ c.to = GatewayOf(leg)
                  /\ RouteKey(c.to, c.payload) = OrderKey(order[r], leg)
                  /\ c.srv # "no" =>
                        /\ c.sends = 1
                        /\ Len(calls[r][leg]) >= 2
                        /\ calls[r][leg][2].to = OrderKey(order[r], leg)
        /\ \A h \in AllHosts :
              posts[r][h] > 0 => h \in Gateways \cup {order[r].payment, order[r].shipping, ""}

\* C21 as stated: when the handler has written the response and returned,
\* both goroutines have completed all of their work: the invoicing leg has
\* ended its span and the shipping leg has closed the response body.
C21_AllWorkDone ==
    \A r \in Req :
        hpc[r] = "done" =>
            /\ spc[r] = "done"
            /\ ipc[r] = "done"
            /\ Len(invEvents[r]) = 3 /\ invEvents[r][3] = "End"

\* C21, amended: when the handler writes the response, both goroutines have
\* handed over their signal, so everything they do before their send is
\* complete (the shipping call has returned and is annotated, both invoicing
\* events are recorded); what may remain is the deferred res.Body.Close() of
\* the shipping leg and the deferred span.End() of the invoicing leg, which
\* run after the send and wait for nothing.
C21_SignalledAtResponse ==
    \A r \in Req :
        /\ hpc[r] \in {"write", "done"} =>
              /\ spc[r] \in {"unwind", "done"}
              /\ ipc[r] \in {"unwind", "done"}
              /\ calls[r]["ship"][1].st = "closed"
              /\ Len(events[r]) = 2
              /\ Len(invEvents[r]) \in {2, 3}
        /\ Len(invEvents[r]) = 3 <=> ipc[r] = "done"
        /\ spc[r] = "unwind" => ENABLED ShippingExit(r)
        /\ ipc[r] = "unwind" => ENABLED InvoiceExit(r)

\* The response is written while neither goroutine has run its deferred
\* call yet.
C21_Witness ==
    \E r \in Req :
        /\ hpc[r] = "done" /\ status[r] = StatusOK
        /\ spc[r] = "unwind"
        /\ ipc[r] = "unwind"
        /\ Len(invEvents[r]) = 2

\* C22: no goroutine of a leg is leaked.  For a well-formed checkout whose
\* calls return, the shipping and the invoicing goroutine both terminate:
\* each channel gets one send met by one receive, and no goroutine is left
\* blocked on its send once the handler has returned.
C22_NoLeak ==
    /\ [](hpc[1] = "done" => spc[1] \in {"unwind", "done"} /\ ipc[1] \in {"unwind", "done"})
    /\ (hpc[1] = "decoded") ~> (spc[1] = "done" /\ ipc[1] = "done" /\ hpc[1] = "done")

\* Both goroutines have ended after a shipping call that failed.
C22_Witness ==
    /\ hpc[1] = "done"
    /\ spc[1] = "done" /\ ipc[1] = "done"
    /\ LegOutcome(1, "ship") = "transport_error"
    /\ tally[1].sent1 = 1 /\ tally[1].sent2 = 1

\* C23: the join receives in a fixed order, shipping first.  The invoicing
\* goroutine may finish its work first, and then stays at its send until
\* the shipping leg has signalled; the invoicing signal is never received
\* while the shipping call is outstanding.
C23_ShippingFirst ==
    \A r \in Req :
        /\ got[r].ch2 # "none" =>
              /\ got[r].ch1 # "none"
              /\ calls[r]["ship"][1].st = "closed"
        /\ spc[r] \in {"start", "call", "send"} =>
              /\ got[r].ch2 = "none"
              /\ ipc[r] \notin {"unwind", "done"}
              /\ ~ENABLED RecvInvoice(r)
        /\ (hpc[r] = "join1" /\ ipc[r] = "send") => ~ENABLED RecvInvoice(r)

\* The invoice is ready and its goroutine waits at its send while the
\* shipping call is still in flight.
C23_Witness ==
    \E r \in Req :
        /\ hpc[r] = "join1"
        /\ ipc[r] = "send"
        /\ spc[r] = "call"
        /\ calls[r]["ship"][1].st = "inflight"
        /\ got[r] = [ch1 |-> "none", ch2 |-> "none"]

\* C24: the chain of HTTP calls of a checkout is finite for every routing
\* key, the keys that name a service of the system included: a gateway's
\* forward carries no key, so a request routed back to a gateway is
\* forwarded once more, to the empty host, and fails; and every service
\* that a call of the chain reaches responds in the end.
C24_ChainEnds ==
    /\ [](\A leg \in Legs :
            /\ Len(calls[1][leg]) <= 3
            /\ Len(calls[1][leg]) = 3 =>
                  /\ calls[1][leg][2].to \in Gateways
                  /\ calls[1][leg][3].to = ""
                  /\ calls[1][leg][3].st # "inflight")
    /\ \A leg \in Legs, k \in Depth :
          (k \in DOMAIN calls[1][leg] /\ calls[1][leg][k].srv # "no")
              ~> (k \in DOMAIN calls[1][leg] /\ calls[1][leg][k].srv = "finished")

\* The calls made behind the gateway of a leg have returned to their
\* callers, each with the response of a service that has finished or with a
\* failure; nothing is asked of what lies behind a call that failed.
ChainSettled(r, leg) ==
    \A k \in DOMAIN calls[r][leg] :
        (k >= 2 /\ \A j \in 2..(k - 1) : calls[r][leg][j].out # "transport_error") =>
            /\ calls[r][leg][k].st = "closed"
            /\ calls[r][leg][k].srv = "finished" \/ calls[r][leg][k].out = "transport_error"

\* C25 as stated: the payment vendor has finished, or the vendor call has
\* failed, before shipping-gateway receives the shipping request of the
\* same checkout, and the shipping vendor has finished before the back-end
\* writes the response.
C25_VendorsInOrder ==
    \A r \in Req :
        /\ (calls[r]["ship"] # <<>> /\ calls[r]["ship"][1].srv # "no") =>
               /\ calls[r]["pay"][1].srv \in {"no", "finished", "panicked"}
               /\ ChainSettled(r, "pay")
        /\ hpc[r] = "done" =>
               /\ calls[r]["ship"][1].srv \in {"no", "finished", "panicked"}
               /\ ChainSettled(r, "ship")

\* C25, amended: the ordering holds for a leg whose gateway answered the
\* back-end.  When the payment call returned a response, payment-gateway
\* and every service behind it had finished before shipping-gateway
\* receives the shipping request; when the shipping call returned a
\* response, the same holds of the shipping side before the response is
\* written.  A call of the back-end that ends in a transport error or by
\* the cancellation of the inbound context leaves its gateway and vendor
\* free to be still at work.
C25_OrderedWhenAnswered ==
    \A r \in Req :
        /\ (calls[r]["ship"] # <<>> /\ calls[r]["ship"][1].srv # "no"
                /\ LegOutcome(r, "pay") \in {"ok", "rejected"}) =>
               /\ calls[r]["pay"][1].srv = "finished"
               /\ ChainSettled(r, "pay")
        /\ (hpc[r] = "done" /\ LegOutcome(r, "ship") \in {"ok", "rejected"}) =>
               /\ calls[r]["ship"][1].srv = "finished"
               /\ ChainSettled(r, "ship")

\* Both vendors were reached and the checkout is answered.
C25_Witness ==
    \E r \in Req :
        /\ hpc[r] = "done"
        /\ LegOutcome(r, "pay") = "ok" /\ LegOutcome(r, "ship") = "ok"
        /\ Len(calls[r]["pay"]) = 2 /\ calls[r]["pay"][2].to = "paypal"
        /\ calls[r]["pay"][2].srv = "finished"
        /\ Len(calls[r]["ship"]) = 2 /\ calls[r]["ship"][2].to = "fedex"
        /\ calls[r]["ship"][2].srv = "finished"

(***************************************************************************)
(* The pricing helper calcAmount, back-end/main.go:237-259.  The fan-out   *)
(* variants never call it (line 163); the sequential variants do.          *)
(***************************************************************************)

\* rand.Intn(500) draws from 0..499.
RandBound == 500
\* The factor of the first variant, which draws nothing.
FixedFactor == 10

\* calcAmount with the factor charged once more, as a fee.
calcAmountPlusFee(n, f) == n * f + f

\* total := len(basket) * rand.Intn(500), for a basket of n items and the
\* factor f drawn.
calcAmount(n, f) == n * f

\* A call of calcAmount with a basket of some size.
CalcInit ==
    /\ NoCheckout
    /\ \E n \in 0..MaxBasket : calc = [CalcIdle EXCEPT !.pc = "called", !.n = n]

\* Lines 240-258: the calculate-price span, the timer, the draw, the two
\* events, the return.
CalcReturn ==
    /\ calc.pc = "called"
    /\ \E f \in 0..(RandBound - 1) :
          calc' = [calc EXCEPT !.pc = "returned", !.factor = f,
                               !.total = calcAmount(calc.n, f),
                               !.events = <<"Start calculating total price",
                                            "Successfully total price calculated",
                                            "End">>]
    /\ UNCHANGED <<cancelled, events, attempts, posts, calls>>
    /\ UNCHANGED <<hpc, body, order, traceId, status, respTrace, measures>>
    /\ UNCHANGED gvars

\* The first variant, part_000:226-242: return len(basket) * 10.
CalcReturnFixed ==
    /\ calc.pc = "called"
    /\ calc' = [calc EXCEPT !.pc = "returned", !.factor = FixedFactor,
                            !.total = calcAmount(calc.n, FixedFactor),
                            !.events = <<"Successfully calc handeled", "End">>]
    /\ UNCHANGED <<cancelled, events, attempts, posts, calls>>
    /\ UNCHANGED <<hpc, body, order, traceId, status, respTrace, measures>>
    /\ UNCHANGED gvars

CalcNext == CalcReturn \/ CalcReturnFixed

CalcSpec == CalcInit /\ [][CalcNext]_vars

\* C27: calcAmount returns len(basket) * r for a factor r of 0..499: 0 for
\* an empty basket, always a non-negative multiple of len(basket), at most
\* 499 * len(basket); and it calls no collaborator.
C27_CalcAmount ==
    calc.pc = "returned" =>
        /\ calc.factor \in 0..(RandBound - 1)
        /\ calc.total = calc.n * calc.factor
        /\ calc.n = 0 => calc.total = 0
        /\ calc.total >= 0
        /\ calc.n > 0 => calc.total % calc.n = 0
        /\ calc.total <= (RandBound - 1) * calc.n
        /\ \A r \in Req :
              /\ calls[r] = [l \in Legs |-> <<>>]
              /\ attempts[r] = [l \in Legs |-> 0]
              /\ \A h \in AllHosts : posts[r][h] = 0

\* The largest amount for a basket of two items.
C27_Witness ==
    /\ calc.pc = "returned"
    /\ calc.n = 2
    /\ calc.factor = RandBound - 1
    /\ calc.total = 998

(***************************************************************************)
(* The OTLP-collector variant of the back-end, unnamed/part_001.  Its      *)
(* payment(), shipping() and invoice() (lines 211-295) are those of        *)
(* back-end/main.go:151-235 word for word, so PaymentCall, PaymentReturn   *)
(* and the goroutines' steps stand for both; its handler (lines 156-202)   *)
(* is translated here on its own.  The baggage it puts in ctx (line 162)   *)
(* is not sent: the propagator is TraceContext alone (line 100).           *)
(***************************************************************************)

\* Lines 156-183: startTime, ctx with baggage, the span and trace id, the
\* decode; on an error the event, the 400 and the return.
OtlpCheckout(r, B) ==
    /\ hpc[r] = "idle"
    /\ \E t \in TraceIds, b \in B :
         LET d == Decode(b) IN
         /\ traceId' = [traceId EXCEPT ![r] = t]
         /\ body' = [body EXCEPT ![r] = b]
         /\ IF d.err
            THEN /\ events' = [events EXCEPT ![r] = Append(@, "Error decoding order json")]
                 /\ status' = [status EXCEPT ![r] = StatusBadRequest]
                 /\ hpc' = [hpc EXCEPT ![r] = "rejected"]
                 /\ UNCHANGED order
            ELSE /\ order' = [order EXCEPT ![r] = d.order]
                 /\ hpc' = [hpc EXCEPT ![r] = "decoded"]
                 /\ UNCHANGED <<events, status>>
    /\ UNCHANGED <<cancelled, respTrace, attempts, posts, calls, measures, calc>>
    /\ UNCHANGED gvars

\* Line 186: ch1 := shipping(ctx, order)
OtlpSpawnShipping(r) ==
    /\ hpc[r] = "paid"
    /\ spc' = [spc EXCEPT ![r] = "start"]
    /\ tally' = [tally EXCEPT ![r].spawned = @ + 1]
    /\ hpc' = [hpc EXCEPT ![r] = "spawned"]
    /\ UNCHANGED <<measures, calc, body, order, traceId, cancelled, status, respTrace,
                   events, attempts, posts, calls, ipc, sval, got, invEvents>>

\* Line 187: ch2 := invoice(ctx, order.Basket, order.Payment)
OtlpSpawnInvoice(r) ==
    /\ hpc[r] = "spawned"
    /\ ipc' = [ipc EXCEPT ![r] = "start"]
    /\ tally' = [tally EXCEPT ![r].spawned = @ + 1]
    /\ hpc' = [hpc EXCEPT ![r] = "join1"]
    /\ UNCHANGED <<measures, calc, body, order, traceId, cancelled, status, respTrace,
                   events, attempts, posts, calls, spc, sval, got, invEvents>>

\* Line 188: <-ch1
OtlpRecvShipping(r) ==
    /\ hpc[r] = "join1"
    /\ spc[r] = "send"
    /\ got' = [got EXCEPT ![r].ch1 = IF sval[r] THEN "true" ELSE "false"]
    /\ tally' = [tally EXCEPT ![r].sent1 = @ + 1, ![r].recv1 = @ + 1]
    /\ spc' = [spc EXCEPT ![r] = "unwind"]
    /\ hpc' = [hpc EXCEPT ![r] = "join2"]
    /\ UNCHANGED <<measures, calc, body, order, traceId, cancelled, status, respTrace,
                   events, attempts, posts, calls, ipc, sval, invEvents>>

\* Line 189: <-ch2
OtlpRecvInvoice(r) ==
    /\ hpc[r] = "join2"
    /\ ipc[r] = "send"
    /\ got' = [got EXCEPT ![r].ch2 = "true"]
    /\ tally' = [tally EXCEPT ![r].sent2 = @ + 1, ![r].recv2 = @ + 1]
    /\ ipc' = [ipc EXCEPT ![r] = "unwind"]
    /\ hpc' = [hpc EXCEPT ![r] = "write"]
    /\ UNCHANGED <<measures, calc, body, order, traceId, cancelled, status, respTrace,
                   events, attempts, posts, calls, spc, sval, invEvents>>

\* Line 192: the first write to w sends status 200 and the body.
OtlpWriteResponse(r) ==
    /\ hpc[r] = "write"
    /\ status' = [status EXCEPT ![r] = StatusOK]
    /\ respTrace' = [respTrace EXCEPT ![r] = traceId[r]]
    /\ hpc' = [hpc EXCEPT ![r] = "done"]
    /\ UNCHANGED <<measures, calc, body, order, traceId, cancelled, events, attempts,
                   posts, calls>>
    /\ UNCHANGED gvars

\* OtlpRecord placed before the response write.
OtlpRecordEarly(r) ==
    /\ hpc[r] = "write"
    /\ measures[r] = NoMeasures
    /\ measures' = [measures EXCEPT ![r] = [latency |-> 1, count |-> 1]]
    /\ UNCHANGED <<hpc, body, order, traceId, status, respTrace, calc>>
    /\ UNCHANGED <<cancelled, events, attempts, posts, calls>>
    /\ UNCHANGED gvars

\* Lines 194-200: meter.RecordBatch with one latency measurement and one
\* count measurement, then the handler returns.
OtlpRecord(r) ==
    /\ hpc[r] = "done"
    /\ measures[r] = NoMeasures
    /\ measures' = [measures EXCEPT ![r] = [latency |-> 1, count |-> 1]]
    /\ UNCHANGED <<hpc, body, order, traceId, status, respTrace, calc>>
    /\ UNCHANGED <<cancelled, events, attempts, posts, calls>>
    /\ UNCHANGED gvars

\* The steps of the OTLP handler that the other variant has as well.
OtlpSteps(r) ==
    \/ PaymentCall(r)
    \/ PaymentReturn(r)
    \/ OtlpSpawnShipping(r)
    \/ OtlpSpawnInvoice(r)
    \/ OtlpRecvShipping(r)
    \/ OtlpRecvInvoice(r)
    \/ OtlpWriteResponse(r)

OtlpNext ==
    \/ OtlpCheckout(1, LiveBodies)
    \/ OtlpSteps(1)
    \/ OtlpRecord(1)
    \/ Goroutines(1)
    \/ Served(1)
    \/ CallerGone(1)
    \/ \E leg \in Legs : ContextAbort(1, leg)
    \/ \E leg \in Legs, k \in Depth : TransportFail(1, leg, k)

OtlpSpec == Init /\ [][OtlpNext]_vars

\* Everything but the measurements.
Orchestration ==
    <<hpc, body, order, traceId, cancelled, status, respTrace, spc, ipc, sval,
      got, tally, events, invEvents, attempts, posts, calls, calc>>

\* C26: the two fan-out variants implement the same orchestration.  Every
\* step of the OTLP variant is a step of the other variant, with the same
\* calls, spawns, joins and response, or is the recording of its two
\* measurements; either variant's handler can step exactly when the
\* other's can; and the OTLP variant records one latency and one count
\* measurement, after the response is written and for a request that
\* decoded, and nothing for one that did not.
C26_SameOrchestration ==
    /\ [](/\ measures[1] \in {NoMeasures, [latency |-> 1, count |-> 1]}
          /\ measures[1] # NoMeasures =>
                hpc[1] = "done" /\ body[1].json /\ status[1] = StatusOK
          /\ hpc[1] = "rejected" => measures[1] = NoMeasures /\ ~ENABLED OtlpRecord(1)
          /\ ENABLED Handler(1) <=> ENABLED OtlpSteps(1)
          /\ ENABLED Checkout(1, LiveBodies) <=> ENABLED OtlpCheckout(1, LiveBodies))
    /\ [][\/ Next
          \/ /\ measures' # measures
             /\ UNCHANGED Orchestration
         ]_vars

\* The OTLP variant has answered a checkout whose payment call failed and
\* whose shipping was rejected, and has recorded its measurements.
C26_Witness ==
    /\ hpc[1] = "done" /\ status[1] = StatusOK
    /\ measures[1] = [latency |-> 1, count |-> 1]
    /\ LegOutcome(1, "pay") = "transport_error"
    /\ LegOutcome(1, "ship") = "rejected"

====
